---- MODULE Spec2Model ----
(***************************************************************************)
(* Cart state machine of the Luxe Threads storefront: the Cart and Shop    *)
(* pages (React components), the guest cart kept in localStorage under the *)
(* key 'anonymousCart', the remote CartItem store, and the asynchronous    *)
(* operations between them.  Every remote call is two steps: the store     *)
(* processes the request (...Server) and the awaiting code resumes with    *)
(* the response (...Deliver); the responses of different calls may arrive  *)
(* in any order.  A component that was unmounted keeps its promises        *)
(* running: their writes to the stores happen, their setState calls do     *)
(* nothing.                                                                *)
(***************************************************************************)
EXTENDS Integers, Sequences, FiniteSets, TLC

\* ---- bounds -------------------------------------------------------------
MaxMounts == 2      \* view activations (page mounts) in one behaviour
MaxQty == 3         \* largest quantity a line takes
MaxIds == 3         \* store-assigned CartItem ids handed out
MaxFails == 1       \* remote calls that fail with a network error
MaxAdds == 2        \* handleAddToCart invocations in flight at once
MaxInitQty == 1     \* largest quantity of a line present at page load
MaxCalls == 1       \* store-changing calls of updateQuantity, removeItem, handleAddToCart
MaxRaceCalls == 2   \* the same, in the behaviours of SpecAdds and SpecEdits

Products == {1, 2}
Catalog == {1, 2}
\* the Product store at page load: every product, or product 2 deleted since
\* it was put into a cart
Catalogs == {Catalog, Catalog \ {2}}
Emails == {"u1"}
NoUser == "none"
Views == {"shop", "cart"}
Gens == 1..MaxMounts
\* loadCartItems invocations of one mount: the effect run after setUser, the
\* effect run after the merge, and the reload of the operation on product p
UserLoad == 0 - 1
MergeLoad == 0 - 2
EffectLoads == {UserLoad, MergeLoad}
LoadKeys == EffectLoads \cup Products

Price(p) == 10 * p

VARIABLES
  session,        \* identity provider: NoUser or the signed-in email
  catalog,        \* Product store: the ids of the products that exist
  productInfo,    \* Product store: the record of each product
  anonymousCart,  \* localStorage 'anonymousCart': sequence of guest lines
  db,             \* remote CartItem store: set of records
  nextId,         \* next id the store assigns
  view,           \* the page that is mounted
  gen,            \* number of mounts so far; the mounted component is gen
  user,           \* useState user
  cartItems,      \* useState cartItems
  products,       \* useState products (the keys of the map)
  loading,        \* useState loading
  updating,       \* useState updating
  isMerging,      \* useState isMerging
  shopProducts,   \* Shop: useState products
  searchTerm,     \* Shop: useState searchTerm
  filters,        \* Shop: useState filters
  sortBy,         \* Shop: useState sortBy
  filteredProducts, \* Shop: useState filteredProducts
  lu,             \* loadUser of each mount
  mg,             \* mergeCarts of each mount
  ld,             \* loadCartItems invocations of each mount
  op,             \* updateQuantity / removeItem invocations of each mount
  ad,             \* handleAddToCart invocations
  pl,             \* Shop loadProducts of each mount
  nfail,          \* network failures so far
  ncall,          \* calls of updateQuantity, removeItem, handleAddToCart so far
  out             \* what the last step called and emitted

vars == <<session, catalog, productInfo, anonymousCart, db, nextId, view, gen, user, cartItems,
          products, loading, updating, isMerging, shopProducts, searchTerm,
          filters, sortBy, filteredProducts, lu, mg, ld, op, ad, pl, nfail,
          ncall, out>>

stores == <<anonymousCart, db, nextId>>
compState == <<user, cartItems, products, loading, updating, isMerging, shopProducts>>
filterState == <<searchTerm, filters, sortBy, filteredProducts>>

\* ---- values -------------------------------------------------------------
NoCall == [name |-> "none", p |-> 0, q |-> 0]
Quiet == [call |-> NoCall, toast |-> "none", event |-> FALSE]
Emit(t, e) == [call |-> NoCall, toast |-> t, event |-> e]
Called(n, p, q, t, e) == [call |-> [name |-> n, p |-> p, q |-> q], toast |-> t, event |-> e]

GuestLine(p, q) == [product_id |-> p, quantity |-> q, price |-> Price(p)]
DbLine(i, e, p, q) == [id |-> i, user_email |-> e, product_id |-> p, quantity |-> q]
NoItem == DbLine(0, NoUser, 0, 0)

\* a remote call may fail with a network error while the budget lasts
Outcomes == IF nfail < MaxFails THEN {TRUE, FALSE} ELSE {TRUE}
Fail(ok) == IF ok THEN nfail ELSE nfail + 1

\* ---- the CartItem store -------------------------------------------------
\* CartItem.filter({user_email})
FilterByEmail(e) == {d \in db : d.user_email = e}
\* CartItem.filter({user_email, product_id})
FilterByEmailProduct(e, p) == {d \in db : d.user_email = e /\ d.product_id = p}
\* CartItem.update(id, {quantity})
DbUpdate(i, q) == {IF d.id = i THEN [d EXCEPT !.quantity = q] ELSE d : d \in db}
\* CartItem.create({product_id, quantity, user_email})
DbCreate(e, p, q) == db \cup {DbLine(nextId, e, p, q)}
\* CartItem.delete(id)
DbDelete(i) == {d \in db : d.id # i}
HasId(i) == \E d \in db : d.id = i

\* ---- the Product store and the Shop filters ---------------------------
\* strings are sequences of characters; Undefined is an optional field that
\* is absent (description, brand)
Undefined == <<"undefined">>
Categories == {"tops", "shoes"}
Brand == <<"b", "a">>
NameOf(p) == IF p = 1 THEN <<"A", "b">> ELSE <<"b">>
CategoryOf(p) == IF p = 1 THEN "tops" ELSE "shoes"
\* a product as Product.list returns it
ProductRow(p, description, brand, price, stock) ==
  [name |-> NameOf(p), description |-> description, brand |-> brand,
   category |-> CategoryOf(p), price |-> price, stock |-> stock,
   rating |-> 0, created_date |-> p]
DefaultRow(p) == ProductRow(p, Undefined, Undefined, Price(p), 1)
\* useState({categories: [], brands: [], priceRange: [0, 1000], inStock: false})
DefaultFilters ==
  [categories |-> {}, brands |-> {}, priceRange |-> <<0, 1000>>, inStock |-> FALSE]
\* useState("name")
DefaultSort == "name"
\* the values of the sort Select
SortOptions == {"name", "price-low", "price-high", "rating", "newest"}
\* the rating of a product that has none
NoRating == 0 - 1

\* ---- process records ----------------------------------------------------
IdleMerge == [pc |-> "idle", email |-> NoUser, localCart |-> <<>>,
              ok |-> TRUE, items |-> {}, lines |-> <<>>]
IdleLoad == [pc |-> "idle", email |-> NoUser, ok |-> TRUE, items |-> {}]
IdleOp == [pc |-> "idle", kind |-> "none", email |-> NoUser, id |-> 0, quantity |-> 0, ok |-> TRUE]
IdleAdd == [pc |-> "idle", email |-> NoUser, p |-> 0, kind |-> "none", id |-> 0,
            quantity |-> 0, ok |-> TRUE, items |-> {}]

\* ---- Cart.js: loadCartItems, anonymous branch (synchronous) -------------
\* productMap built from the guest lines
GuestProducts(cart) == {cart[i].product_id : i \in DOMAIN cart}
\* localCart.map(item => ({...item, id: item.product_id}))
GuestItems(cart) == {DbLine(cart[i].product_id, NoUser, cart[i].product_id, cart[i].quantity) : i \in DOMAIN cart}

\* ---- initial state: a page load ----------------------------------------
\* carts that can be left over from earlier sessions: one line per product,
\* quantity at least 1
InitGuestCarts ==
  {<<>>} \cup {<<GuestLine(1, q)>> : q \in 1..MaxInitQty}
         \cup {<<GuestLine(1, q1), GuestLine(2, q2)>> : q1, q2 \in 1..MaxInitQty}
InitDbs ==
  {{}} \cup {{DbLine(1, e, 1, q)} : e \in Emails, q \in 1..MaxInitQty}
       \cup {{DbLine(1, e, 1, q1), DbLine(2, e, 2, q2)} : e \in Emails, q1, q2 \in 1..MaxInitQty}

\* the state of a page load but for the records of the Product store
PageLoad ==
  /\ session \in {NoUser} \cup Emails
  /\ catalog \in Catalogs
  /\ anonymousCart \in InitGuestCarts
  /\ db \in InitDbs
  /\ nextId = Cardinality(db) + 1
  /\ view = "none"
  /\ gen = 0
  /\ user = NoUser
  /\ cartItems = {}
  /\ products = {}
  /\ loading = TRUE
  /\ updating = [p \in Products |-> FALSE]
  /\ isMerging = FALSE
  /\ shopProducts = {}
  /\ searchTerm = <<>>
  /\ filters = DefaultFilters
  /\ sortBy = DefaultSort
  /\ filteredProducts = <<>>
  /\ lu = [g \in Gens |-> "idle"]
  /\ mg = [g \in Gens |-> IdleMerge]
  /\ ld = [g \in Gens |-> [k \in LoadKeys |-> IdleLoad]]
  /\ op = [g \in Gens |-> [p \in Products |-> IdleOp]]
  /\ ad = [k \in 1..MaxAdds |-> IdleAdd]
  /\ pl = [g \in Gens |-> "idle"]
  /\ nfail = 0
  /\ ncall = 0
  /\ out = Quiet

Init ==
  /\ PageLoad
  /\ productInfo = [p \in Products |-> DefaultRow(p)]

Live(g) == g = gen

\* A reload whose component was unmounted: React drops its setState calls, so
\* all that is left of it is the error toast of a failed read and the end of
\* the operation that awaits it.
Unmounted(l) == IF l.pc = "idle" THEN l ELSE [IdleLoad EXCEPT !.pc = "dead"]

\* ---- view activation ----------------------------------------------------
\* A page is mounted (possibly the page that was shown before, left for a page
\* outside this model and entered again): fresh component state, then its
\* mount effects run.
\* Cart: loadUser() and loadCartItems() with user = null (guest branch).
\* Shop: loadUser() and loadProducts(); applyFilters runs on the empty list.
Navigate(v) ==
  /\ gen' = gen + 1
  /\ view' = v
  /\ user' = NoUser
  /\ updating' = [p \in Products |-> FALSE]
  /\ isMerging' = FALSE
  /\ shopProducts' = {}
  /\ searchTerm' = <<>>
  /\ filters' = DefaultFilters
  /\ sortBy' = DefaultSort
  /\ filteredProducts' = <<>>
  /\ lu' = [g \in Gens |-> IF g = gen + 1 THEN v ELSE IF lu[g] = "shop" THEN "done" ELSE lu[g]]
  /\ ld' = [g \in Gens |-> [k \in LoadKeys |-> Unmounted(ld[g][k])]]
  /\ IF v = "cart"
       THEN /\ cartItems' = GuestItems(anonymousCart)
            /\ products' = GuestProducts(anonymousCart)
            /\ loading' = FALSE
            /\ pl' = pl
       ELSE /\ cartItems' = {}
            /\ products' = {}
            /\ loading' = TRUE
            /\ pl' = [pl EXCEPT ![gen + 1] = "pending"]
  /\ out' = Called("mount", 0, 0, "none", FALSE)
  /\ UNCHANGED <<session, catalog, productInfo, stores, mg, op, ad, nfail>>
  /\ ncall' = ncall

\* ---- effects ------------------------------------------------------------
\* useEffect(() => { loadCartItems(); }, [user, loadCartItems, isMerging]):
\* the signed-in branch of loadCartItems starts: setLoading(true) and the
\* CartItem.filter request is issued.
StartLoad(g, k, e) ==
  [ld EXCEPT ![g][k] = IF Live(g) THEN [pc |-> "wait", email |-> e, ok |-> TRUE, items |-> {}]
                                  ELSE [IdleLoad EXCEPT !.pc = "dead"]]

\* ---- loadUser -----------------------------------------------------------
LoadUserResolve_KeepsSession(g) ==
  /\ lu[g] \in Views
  /\ \E ok \in Outcomes :
       LET success == session \in Emails
           merges == success /\ lu[g] = "cart" /\ Len(anonymousCart) > 0
       IN
       /\ nfail' = IF session \in Emails THEN Fail(ok) ELSE nfail
       /\ lu' = [lu EXCEPT ![g] = "done"]
       /\ user' = IF success /\ Live(g) THEN session ELSE user
       /\ mg' = IF merges
                  THEN [mg EXCEPT ![g] = [IdleMerge EXCEPT !.pc = "lookup", !.email = session,
                                                           !.localCart = anonymousCart]]
                  ELSE mg
       /\ isMerging' = IF merges /\ Live(g) THEN TRUE ELSE isMerging
       /\ IF success /\ Live(g) /\ lu[g] = "cart"
            THEN /\ ld' = StartLoad(g, UserLoad, session)
                 /\ loading' = TRUE
            ELSE UNCHANGED <<ld, loading>>
  /\ out' = Quiet
  /\ UNCHANGED <<session, catalog, productInfo, filterState, stores, view, gen, cartItems, products, updating,
                 shopProducts, op, ad, pl>>
  /\ ncall' = ncall

LoadUserResolve_MergesEmpty(g) ==
  /\ lu[g] \in Views
  /\ \E ok \in Outcomes :
       LET success == ok /\ session \in Emails
           merges == success /\ lu[g] = "cart"
       IN
       /\ nfail' = IF session \in Emails THEN Fail(ok) ELSE nfail
       /\ lu' = [lu EXCEPT ![g] = "done"]
       /\ user' = IF success /\ Live(g) THEN session ELSE user
       /\ mg' = IF merges
                  THEN [mg EXCEPT ![g] = [IdleMerge EXCEPT !.pc = "lookup", !.email = session,
                                                           !.localCart = anonymousCart]]
                  ELSE mg
       /\ isMerging' = IF merges /\ Live(g) THEN TRUE ELSE isMerging
       /\ IF success /\ Live(g) /\ lu[g] = "cart"
            THEN /\ ld' = StartLoad(g, UserLoad, session)
                 /\ loading' = TRUE
            ELSE UNCHANGED <<ld, loading>>
  /\ out' = Quiet
  /\ UNCHANGED <<session, catalog, productInfo, filterState, stores, view, gen, cartItems, products, updating,
                 shopProducts, op, ad, pl>>
  /\ ncall' = ncall

\* User.me() settles and loadUser resumes.  It rejects when nobody is signed
\* in.  Cart: setUser, then mergeCarts when the guest cart is not empty.
\* Shop: setUser only.
LoadUserResolve(g) ==
  /\ lu[g] \in Views
  /\ \E ok \in Outcomes :
       LET success == ok /\ session \in Emails
           merges == success /\ lu[g] = "cart" /\ Len(anonymousCart) > 0
       IN
       /\ nfail' = IF session \in Emails THEN Fail(ok) ELSE nfail
       /\ lu' = [lu EXCEPT ![g] = "done"]
       /\ user' = IF success /\ Live(g) THEN session ELSE user
       /\ mg' = IF merges
                  THEN [mg EXCEPT ![g] = [IdleMerge EXCEPT !.pc = "lookup", !.email = session,
                                                           !.localCart = anonymousCart]]
                  ELSE mg
       /\ isMerging' = IF merges /\ Live(g) THEN TRUE ELSE isMerging
       /\ IF success /\ Live(g) /\ lu[g] = "cart"
            THEN /\ ld' = StartLoad(g, UserLoad, session)
                 /\ loading' = TRUE
            ELSE UNCHANGED <<ld, loading>>
  /\ out' = Quiet
  /\ UNCHANGED <<session, catalog, productInfo, filterState, stores, view, gen, cartItems, products, updating,
                 shopProducts, op, ad, pl>>
  /\ ncall' = ncall

\* ---- mergeCarts ---------------------------------------------------------
\* CartItem.filter({user_email}) of the merge is processed by the store
MergeLookupServer(g) ==
  /\ mg[g].pc = "lookup"
  /\ \E ok \in Outcomes :
       /\ nfail' = Fail(ok)
       /\ mg' = [mg EXCEPT ![g].pc = "lookupResp", ![g].ok = ok,
                           ![g].items = IF ok THEN FilterByEmail(mg[g].email) ELSE {}]
  /\ out' = Quiet
  /\ UNCHANGED <<session, catalog, productInfo, filterState, stores, view, gen, compState, lu, ld, op, ad, pl>>
  /\ ncall' = ncall

\* dbItem.quantity + localItem.quantity
MergedQuantity(dbQuantity, localQuantity) == dbQuantity + localQuantity

\* dbCartMap.get(localItem.product_id): the store may have returned several
\* lines of one product, in an order it does not promise; the Map keeps one
DbCartMaps(items, localCart) ==
  {m \in [DOMAIN localCart -> items \cup {NoItem}] :
     \A i \in DOMAIN localCart :
        LET same == {d \in items : d.product_id = localCart[i].product_id}
        IN IF same = {} THEN m[i] = NoItem ELSE m[i] \in same}

\* the request localCart.map issues for one guest line
MergeRequest(dbItem, localItem) ==
  IF dbItem # NoItem
    THEN [kind |-> "update", id |-> dbItem.id, p |-> localItem.product_id, r |-> dbItem.quantity,
          quantity |-> MergedQuantity(dbItem.quantity, localItem.quantity), st |-> "pending"]
    ELSE [kind |-> "create", id |-> 0, p |-> localItem.product_id, r |-> 0,
          quantity |-> localItem.quantity, st |-> "pending"]

BlobAfterMerge_Always(success, cart) == <<>>

\* localStorage after the merge: removeItem('anonymousCart') runs only when
\* Promise.all fulfilled; the catch branch leaves the guest cart alone
BlobAfterMerge(success, cart) == IF success THEN <<>> ELSE cart

\* await Promise.all(promises): rejected with the first rejection that is
\* delivered, fulfilled when every promise is fulfilled
PromiseAll(lines) ==
  IF \E i \in DOMAIN lines : lines[i].st = "rejected" THEN "rejected"
  ELSE IF \A i \in DOMAIN lines : lines[i].st = "fulfilled" THEN "fulfilled"
  ELSE "pending"

MergeFinish_QuietOnFailure(g, m, success) ==
  /\ mg' = [mg EXCEPT ![g] = [m EXCEPT !.pc = "done", !.ok = success]]
  /\ anonymousCart' = BlobAfterMerge(success, anonymousCart)
  /\ IF Live(g)
       THEN /\ isMerging' = FALSE
            /\ ld' = StartLoad(g, MergeLoad, user)
            /\ loading' = TRUE
       ELSE UNCHANGED <<isMerging, ld, loading>>
  /\ out' = Emit(IF success THEN "info" ELSE "error", success)

\* the end of mergeCarts: the success toast or the catch branch, then the
\* finally block (setIsMerging(false), 'cartUpdated'), and the effect that
\* reloads the cart because isMerging changed
MergeFinish(g, m, success) ==
  /\ mg' = [mg EXCEPT ![g] = [m EXCEPT !.pc = "done", !.ok = success]]
  /\ anonymousCart' = BlobAfterMerge(success, anonymousCart)
  /\ IF Live(g)
       THEN /\ isMerging' = FALSE
            /\ ld' = StartLoad(g, MergeLoad, user)
            /\ loading' = TRUE
       ELSE UNCHANGED <<isMerging, ld, loading>>
  /\ out' = Emit(IF success THEN "info" ELSE "error", TRUE)

\* mergeCarts resumes with the lookup: on failure the catch branch, else one
\* update or create per guest line is issued and Promise.all awaited
MergeLookupDeliver(g) ==
  /\ mg[g].pc = "lookupResp"
  /\ IF ~mg[g].ok
       THEN MergeFinish(g, mg[g], FALSE)
       ELSE /\ \E m \in DbCartMaps(mg[g].items, mg[g].localCart) :
                 mg' = [mg EXCEPT ![g].pc = "join",
                                  ![g].lines = [i \in DOMAIN mg[g].localCart |->
                                                  MergeRequest(m[i], mg[g].localCart[i])]]
            /\ out' = Quiet
            /\ UNCHANGED <<anonymousCart, isMerging, ld, loading>>
  /\ UNCHANGED <<session, catalog, productInfo, filterState, db, nextId, view, gen, user, cartItems, products, updating,
                 shopProducts, lu, op, ad, pl, nfail>>
  /\ ncall' = ncall

\* the store processes the update or create of one guest line
MergeLineServer(g, i) ==
  /\ mg[g].pc \in {"join", "done"}
  /\ i \in DOMAIN mg[g].lines
  /\ LET l == mg[g].lines[i] IN
     /\ l.st = "pending"
     /\ l.quantity <= MaxQty
     /\ \E ok \in Outcomes :
          /\ nfail' = Fail(ok)
          /\ IF ok /\ l.kind = "update" /\ HasId(l.id)
               THEN /\ db' = DbUpdate(l.id, l.quantity)
                    /\ nextId' = nextId
                    /\ mg' = [mg EXCEPT ![g].lines[i].st = "ok"]
             ELSE IF ok /\ l.kind = "create"
               THEN /\ nextId <= MaxIds
                    /\ db' = DbCreate(mg[g].email, l.p, l.quantity)
                    /\ nextId' = nextId + 1
                    /\ mg' = [mg EXCEPT ![g].lines[i].st = "ok"]
             ELSE /\ UNCHANGED <<db, nextId>>
                  /\ mg' = [mg EXCEPT ![g].lines[i].st = "fail"]
  /\ out' = Quiet
  /\ UNCHANGED <<session, catalog, productInfo, filterState, anonymousCart, view, gen, compState, lu, ld, op, ad, pl>>
  /\ ncall' = ncall

\* the response of one guest line's request arrives; Promise.all settles
\* with it or keeps waiting
MergeLineDeliver(g, i) ==
  /\ mg[g].pc \in {"join", "done"}
  /\ i \in DOMAIN mg[g].lines
  /\ mg[g].lines[i].st \in {"ok", "fail"}
  /\ LET st == IF mg[g].lines[i].st = "ok" THEN "fulfilled" ELSE "rejected"
         m == [mg[g] EXCEPT !.lines[i].st = st]
     IN IF mg[g].pc = "join" /\ PromiseAll(m.lines) # "pending"
          THEN MergeFinish(g, m, PromiseAll(m.lines) = "fulfilled")
          ELSE /\ mg' = [mg EXCEPT ![g] = m]
               /\ out' = Quiet
               /\ UNCHANGED <<anonymousCart, isMerging, ld, loading>>
  /\ UNCHANGED <<session, catalog, productInfo, filterState, db, nextId, view, gen, user, cartItems, products, updating,
                 shopProducts, lu, op, ad, pl, nfail>>
  /\ ncall' = ncall

\* ---- loadCartItems, signed-in branch ----------------------------------
\* CartItem.filter({user_email}) of a reload is processed by the store
LoadServer(g, k) ==
  /\ ld[g][k].pc = "wait"
  /\ \E ok \in Outcomes :
       /\ nfail' = Fail(ok)
       /\ ld' = [ld EXCEPT ![g][k].pc = "resp", ![g][k].ok = ok,
                           ![g][k].items = IF ok THEN FilterByEmail(ld[g][k].email) ELSE {}]
  /\ out' = Quiet
  /\ UNCHANGED <<session, catalog, productInfo, filterState, stores, view, gen, compState, lu, mg, op, ad, pl>>
  /\ ncall' = ncall

\* [...new Set(items.map(item => item.product_id))]
ProductIds(items) == {d.product_id : d \in items}
ProductMap_All(ids) == ids

\* Product.filter({id: productIds}) turned into the product map: products
\* that no longer exist are absent from it
ProductMap(ids) == ids \cap catalog

\* the finally block of loadCartItems; when the reload was awaited by
\* updateQuantity or removeItem (k is its product), that operation then
\* dispatches 'cartUpdated' and clears its busy flag
LoadEnd(g, k, toast) ==
  /\ ld' = [ld EXCEPT ![g][k] = IdleLoad]
  /\ loading' = IF Live(g) THEN FALSE ELSE loading
  /\ IF k \in Products
       THEN /\ op' = [op EXCEPT ![g][k] = IdleOp]
            /\ updating' = IF Live(g) THEN [updating EXCEPT ![k] = FALSE] ELSE updating
            /\ out' = Emit(toast, TRUE)
       ELSE /\ UNCHANGED <<op, updating>>
            /\ out' = Emit(toast, FALSE)

\* loadCartItems resumes with the cart lines: setCartItems(items), then the
\* products are fetched unless there is none to fetch; a failed read goes to
\* the catch branch
LoadDeliver(g, k) ==
  /\ ld[g][k].pc = "resp"
  /\ LET l == ld[g][k] IN
     IF ~l.ok
       THEN /\ LoadEnd(g, k, "error")
            /\ UNCHANGED <<cartItems, products>>
       ELSE /\ cartItems' = IF Live(g) THEN l.items ELSE cartItems
            /\ IF ProductIds(l.items) # {}
                 THEN /\ ld' = [ld EXCEPT ![g][k].pc = "prod"]
                      /\ out' = Quiet
                      /\ UNCHANGED <<products, loading, op, updating>>
                 ELSE /\ products' = IF Live(g) THEN {} ELSE products
                      /\ LoadEnd(g, k, "none")
  /\ UNCHANGED <<session, catalog, productInfo, filterState, stores, view, gen, user, isMerging, shopProducts, lu, mg, ad, pl, nfail>>
  /\ ncall' = ncall

\* Product.filter settles and loadCartItems resumes: setProducts(productMap)
LoadProducts(g, k) ==
  /\ ld[g][k].pc = "prod"
  /\ \E ok \in Outcomes :
       /\ nfail' = Fail(ok)
       /\ products' = IF ok /\ Live(g) THEN ProductMap(ProductIds(ld[g][k].items)) ELSE products
       /\ LoadEnd(g, k, IF ok THEN "none" ELSE "error")
  /\ UNCHANGED <<session, catalog, productInfo, filterState, stores, view, gen, user, cartItems, isMerging, shopProducts, lu, mg, ad, pl>>
  /\ ncall' = ncall

\* the reload of an unmounted component ends
LoadDiscard(g, k) ==
  /\ ld[g][k].pc = "dead"
  /\ \E ok \in Outcomes :
       /\ nfail' = Fail(ok)
       /\ LoadEnd(g, k, IF ok THEN "none" ELSE "error")
  /\ UNCHANGED <<session, catalog, productInfo, filterState, stores, view, gen, user, cartItems, products, isMerging, shopProducts,
                 lu, mg, ad, pl>>
  /\ ncall' = ncall

\* ---- updateQuantity / removeItem ---------------------------------------
\* the Cart page shows the cart or the empty cart, not the spinner
Interactive == view = "cart" /\ ~loading /\ ~isMerging
\* cartItems.find(item => item.product_id === productId): the lines of one
\* product the in-memory list holds
Find(p) == {item \in cartItems : item.product_id = p}
\* the control of a line is rendered and enabled
Enabled(item) == item \in cartItems /\ item.product_id \in products /\ ~updating[item.product_id]

Rejected_Negative(newQuantity) == newQuantity < 0
Rejected_Never(newQuantity) == FALSE

\* the quantity guard of updateQuantity: newQuantity < 1 returns at once
Rejected(newQuantity) == newQuantity < 1

GuestSetQuantity_All(cart, p, q) ==
  [i \in DOMAIN cart |-> [cart[i] EXCEPT !.quantity = q]]

\* localCart.map(item => item.product_id === productId ? {...item, quantity} : item)
GuestSetQuantity(cart, p, q) ==
  [i \in DOMAIN cart |-> IF cart[i].product_id = p THEN [cart[i] EXCEPT !.quantity = q] ELSE cart[i]]
\* localCart.filter(item => item.product_id !== productId)
GuestRemove(cart, p) == SelectSeq(cart, LAMBDA item : item.product_id # p)

\* the guest branch of an operation: the blob is rewritten, loadCartItems
\* (guest branch) reloads from it, 'cartUpdated' is dispatched
GuestWrite(cart) ==
  /\ anonymousCart' = cart
  /\ products' = GuestProducts(cart)
  /\ cartItems' = GuestItems(cart)
  /\ loading' = FALSE

\* the signed-in branch of an operation issues its request for one line
IssueOp(p, kind, cartItem, q) ==
  /\ op[gen][p].pc = "idle"
  /\ op' = [op EXCEPT ![gen][p] = [IdleOp EXCEPT !.pc = "wait", !.kind = kind, !.email = user,
                                                !.id = cartItem.id, !.quantity = q]]
  /\ updating' = [updating EXCEPT ![p] = TRUE]
  /\ UNCHANGED <<stores, cartItems, products, loading>>

NoMatchingLine_Issues(p) == IssueOp(p, "delete", NoItem, 0)

NoMatchingLine_KeepsBusy(p) ==
  /\ updating' = [updating EXCEPT ![p] = TRUE]
  /\ UNCHANGED <<stores, cartItems, products, loading, op>>

\* the signed-in branch when cartItems holds no line of the product:
\* the busy flag is cleared again and the operation returns
NoMatchingLine(p) ==
  /\ updating' = [updating EXCEPT ![p] = FALSE]
  /\ UNCHANGED <<stores, cartItems, products, loading, op>>

\* updateQuantity(productId, newQuantity): clicked on a rendered line (plus or
\* minus, minus being disabled at quantity 1), or called with a quantity
\* below 1, or for a product the cart does not show
UpdateQuantity(p, q) ==
  /\ Interactive
  /\ q <= MaxQty
  /\ \/ \E item \in Find(p) : /\ Enabled(item)
                              /\ \/ q = item.quantity + 1
                                 \/ q = item.quantity - 1 /\ item.quantity > 1
     \/ q < 1
     \/ Find(p) = {}
  /\ ncall' = IF Rejected(q) \/ (user # NoUser /\ Find(p) = {}) THEN ncall ELSE ncall + 1
  /\ IF Rejected(q)
       THEN /\ UNCHANGED <<stores, cartItems, products, loading, updating, op>>
            /\ out' = Called("updateQuantity", p, q, "none", FALSE)
     ELSE IF user # NoUser
       THEN /\ IF Find(p) = {}
                 THEN NoMatchingLine(p)
                 ELSE \E cartItem \in Find(p) : IssueOp(p, "update", cartItem, q)
            /\ out' = Called("updateQuantity", p, q, "none", FALSE)
     ELSE /\ GuestWrite(GuestSetQuantity(anonymousCart, p, q))
          /\ UNCHANGED <<db, nextId, updating, op>>
          /\ out' = Called("updateQuantity", p, q, "none", TRUE)
  /\ UNCHANGED <<session, catalog, productInfo, filterState, view, gen, user, isMerging, shopProducts, lu, mg, ld, ad, pl, nfail>>

\* removeItem(productId): clicked on a rendered line, or called for a
\* product the cart does not show
RemoveItem(p) ==
  /\ Interactive
  /\ ncall' = IF user # NoUser /\ Find(p) = {} THEN ncall ELSE ncall + 1
  /\ \/ \E item \in Find(p) : Enabled(item)
     \/ Find(p) = {}
  /\ IF user # NoUser
       THEN /\ IF Find(p) = {}
                 THEN NoMatchingLine(p)
                 ELSE \E cartItem \in Find(p) : IssueOp(p, "delete", cartItem, 0)
            /\ out' = Called("removeItem", p, 0, "none", FALSE)
       ELSE /\ GuestWrite(GuestRemove(anonymousCart, p))
            /\ UNCHANGED <<db, nextId, updating, op>>
            /\ out' = Called("removeItem", p, 0, "info", TRUE)
  /\ UNCHANGED <<session, catalog, productInfo, filterState, view, gen, user, isMerging, shopProducts, lu, mg, ld, ad, pl, nfail>>

\* the store processes CartItem.update or CartItem.delete of an operation
OpServer(g, p) ==
  /\ op[g][p].pc = "wait"
  /\ op[g][p].quantity <= MaxQty
  /\ \E ok \in Outcomes :
       /\ nfail' = Fail(ok)
       /\ IF ok /\ HasId(op[g][p].id)
            THEN /\ db' = IF op[g][p].kind = "update"
                            THEN DbUpdate(op[g][p].id, op[g][p].quantity)
                            ELSE DbDelete(op[g][p].id)
                 /\ op' = [op EXCEPT ![g][p].pc = "resp", ![g][p].ok = TRUE]
            ELSE /\ db' = db
                 /\ op' = [op EXCEPT ![g][p].pc = "resp", ![g][p].ok = FALSE]
  /\ out' = Quiet
  /\ UNCHANGED <<session, catalog, productInfo, filterState, anonymousCart, nextId, view, gen, compState, lu, mg, ld, ad, pl>>
  /\ ncall' = ncall

\* the toast an operation shows when its request has settled
OpToast(kind, ok) == IF ~ok THEN "error" ELSE IF kind = "delete" THEN "info" ELSE "none"

\* the operation resumes after its request: toast, then await loadCartItems()
OpDeliver(g, p) ==
  /\ op[g][p].pc = "resp"
  /\ op' = [op EXCEPT ![g][p].pc = "reload"]
  /\ ld' = StartLoad(g, p, op[g][p].email)
  /\ loading' = IF Live(g) THEN TRUE ELSE loading
  /\ out' = Emit(OpToast(op[g][p].kind, op[g][p].ok), FALSE)
  /\ UNCHANGED <<session, catalog, productInfo, filterState, stores, view, gen, user, cartItems, products, updating, isMerging,
                 shopProducts, lu, mg, ad, pl, nfail>>
  /\ ncall' = ncall

\* ---- Shop.js: applyFilters ----------------------------------------------
\* String.prototype.toLowerCase
ToLowerChar(c) == IF c = "A" THEN "a" ELSE IF c = "B" THEN "b" ELSE IF c = "C" THEN "c" ELSE c
ToLowerCase(s) == [i \in DOMAIN s |-> ToLowerChar(s[i])]
\* String.prototype.includes: t occurs in s as a substring
Includes(s, t) == \E i \in 0..(Len(s) - Len(t)) : SubSeq(s, i + 1, i + Len(t)) = t

\* field?.toLowerCase().includes(term.toLowerCase()): undefined when the field is absent
FieldIncludes(field, term) ==
  field # Undefined /\ Includes(ToLowerCase(field), ToLowerCase(term))

\* the predicate of the search filter
MatchesSearch(product, term) ==
  \/ Includes(ToLowerCase(product.name), ToLowerCase(term))
  \/ FieldIncludes(product.description, term)
  \/ FieldIncludes(product.brand, term)

\* if (searchTerm) filtered = filtered.filter(...)
SearchFilter(list, term) ==
  IF term # <<>> THEN SelectSeq(list, LAMBDA p : MatchesSearch(productInfo[p], term)) ELSE list

CategoryFilter_Fallback(list, f) ==
  LET kept == SelectSeq(list, LAMBDA p : productInfo[p].category \in f.categories)
  IN IF f.categories # {} /\ kept # <<>> THEN kept ELSE list

\* if (filters.categories.length > 0) filtered = filtered.filter(...)
CategoryFilter(list, f) ==
  IF f.categories # {}
    THEN SelectSeq(list, LAMBDA p : productInfo[p].category \in f.categories)
    ELSE list

\* if (filters.brands.length > 0) filtered = filtered.filter(...)
BrandFilter(list, f) ==
  IF f.brands # {} THEN SelectSeq(list, LAMBDA p : productInfo[p].brand \in f.brands) ELSE list

InRange_Exclusive(price, priceRange) == price >= priceRange[1] /\ price < priceRange[2]

\* product.price >= filters.priceRange[0] && product.price <= filters.priceRange[1]
InRange(price, priceRange) == price >= priceRange[1] /\ price <= priceRange[2]

\* if (filters.priceRange) filtered = filtered.filter(...): an array is truthy
PriceFilter(list, f) ==
  SelectSeq(list, LAMBDA p : InRange(productInfo[p].price, f.priceRange))

\* if (filters.inStock) filtered = filtered.filter(product => product.stock > 0)
StockFilter(list, f) ==
  IF f.inStock THEN SelectSeq(list, LAMBDA p : productInfo[p].stock > 0) ELSE list

\* String.prototype.localeCompare: letters first, case to break a tie
\* (lower case before upper case), a prefix before its extensions
LetterRank(c) == IF ToLowerChar(c) = "a" THEN 1 ELSE IF ToLowerChar(c) = "b" THEN 2 ELSE 3
CaseRank(c) == IF ToLowerChar(c) = c THEN 0 ELSE 1
RECURSIVE CompareRanks(_, _)
CompareRanks(s, t) ==
  IF s = <<>> /\ t = <<>> THEN 0
  ELSE IF s = <<>> THEN 0 - 1
  ELSE IF t = <<>> THEN 1
  ELSE IF Head(s) # Head(t) THEN Head(s) - Head(t)
  ELSE CompareRanks(Tail(s), Tail(t))
LocaleCompare(s, t) ==
  LET letters == CompareRanks([i \in DOMAIN s |-> LetterRank(s[i])], [i \in DOMAIN t |-> LetterRank(t[i])])
  IN IF letters # 0 THEN letters
     ELSE CompareRanks([i \in DOMAIN s |-> CaseRank(s[i])], [i \in DOMAIN t |-> CaseRank(t[i])])

RatingOrZero_Raw(rating) == rating

\* (rating || 0): a missing rating counts as 0
RatingOrZero(rating) == IF rating = NoRating THEN 0 ELSE rating

\* the comparator of filtered.sort
SortCompare(a, b, sort) ==
  CASE sort = "price-low" -> a.price - b.price
    [] sort = "price-high" -> b.price - a.price
    [] sort = "rating" -> RatingOrZero(b.rating) - RatingOrZero(a.rating)
    [] sort = "newest" -> b.created_date - a.created_date
    [] OTHER -> LocaleCompare(a.name, b.name)

\* Array.prototype.sort is stable: an element goes behind the elements it
\* does not come before
RECURSIVE InsertSorted(_, _, _)
InsertSorted(sorted, p, sort) ==
  IF sorted = <<>> THEN <<p>>
  ELSE IF SortCompare(productInfo[Head(sorted)], productInfo[p], sort) > 0 THEN <<p>> \o sorted
  ELSE <<Head(sorted)>> \o InsertSorted(Tail(sorted), p, sort)
RECURSIVE Sort(_, _)
Sort(list, sort) ==
  IF list = <<>> THEN <<>>
  ELSE InsertSorted(Sort(SubSeq(list, 1, Len(list) - 1), sort), list[Len(list)], sort)

\* [...products]: Product.list returns the products by ascending id
RECURSIVE ListOf(_)
ListOf(S) ==
  IF S = {} THEN <<>>
  ELSE LET first == CHOOSE x \in S : \A y \in S : x <= y
       IN <<first>> \o ListOf(S \ {first})

\* applyFilters: the five filters in the order of the code, then the sort;
\* the result is what setFilteredProducts receives
ApplyFilters(prods, term, f, sort) ==
  Sort(StockFilter(PriceFilter(BrandFilter(CategoryFilter(SearchFilter(ListOf(prods), term), f),
                                           f), f), f), sort)

\* the filter controls are rendered once the products are loaded
FiltersShown == view = "shop" /\ ~loading

\* the values the controls set
SearchTerms == {<<>>, <<"A">>, <<"c">>}
PriceRanges == {<<0, 1000>>, <<10, 1000>>, <<11, 1001>>}
FilterSpecs ==
  [categories : SUBSET Categories, brands : SUBSET {Brand}, priceRange : PriceRanges,
   inStock : BOOLEAN]

\* f differs from the filters in force by what one control of ProductFilters
\* sets
OneControl(f) ==
  Cardinality({k \in {"categories", "brands", "priceRange", "inStock"} : f[k] # filters[k]}) = 1

\* onChange of the search input: setSearchTerm, then the effect runs applyFilters
SetSearchTerm(term) ==
  /\ FiltersShown
  /\ searchTerm' = term
  /\ filteredProducts' = ApplyFilters(shopProducts, term, filters, sortBy)
  /\ out' = Quiet
  /\ UNCHANGED <<session, catalog, productInfo, stores, view, gen, compState, filters, sortBy,
                 lu, mg, ld, op, ad, pl, nfail, ncall>>

\* onFiltersChange of ProductFilters: setFilters, then the effect runs applyFilters
SetFilters(f) ==
  /\ FiltersShown
  /\ filters' = f
  /\ filteredProducts' = ApplyFilters(shopProducts, searchTerm, f, sortBy)
  /\ out' = Quiet
  /\ UNCHANGED <<session, catalog, productInfo, stores, view, gen, compState, searchTerm, sortBy,
                 lu, mg, ld, op, ad, pl, nfail, ncall>>

\* clearFilters: the default filters and the empty search term
ClearFilters ==
  /\ FiltersShown
  /\ filters' = DefaultFilters
  /\ searchTerm' = <<>>
  /\ filteredProducts' = ApplyFilters(shopProducts, <<>>, DefaultFilters, sortBy)
  /\ out' = Quiet
  /\ UNCHANGED <<session, catalog, productInfo, stores, view, gen, compState, sortBy,
                 lu, mg, ld, op, ad, pl, nfail, ncall>>

\* onValueChange of the sort Select: setSortBy, then the effect runs applyFilters
SetSortBy(sort) ==
  /\ FiltersShown
  /\ sortBy' = sort
  /\ filteredProducts' = ApplyFilters(shopProducts, searchTerm, filters, sort)
  /\ out' = Quiet
  /\ UNCHANGED <<session, catalog, productInfo, stores, view, gen, compState, searchTerm, filters,
                 lu, mg, ld, op, ad, pl, nfail, ncall>>

\* ---- Shop.js: loadProducts, handleAddToCart ------------------------------
\* Product.list() settles and loadProducts resumes: setProducts(data), and
\* the effect runs applyFilters on the new list
ShopProductsResolve(g) ==
  /\ pl[g] = "pending"
  /\ \E ok \in Outcomes :
       /\ nfail' = Fail(ok)
       /\ shopProducts' = IF ok /\ Live(g) THEN catalog ELSE shopProducts
       /\ filteredProducts' = IF ok /\ Live(g)
                                THEN ApplyFilters(catalog, searchTerm, filters, sortBy)
                                ELSE filteredProducts
       /\ out' = Emit(IF ok THEN "none" ELSE "error", FALSE)
  /\ loading' = IF Live(g) THEN FALSE ELSE loading
  /\ pl' = [pl EXCEPT ![g] = "idle"]
  /\ UNCHANGED <<session, catalog, productInfo, stores, view, gen, user, cartItems, products,
                 updating, isMerging, searchTerm, filters, sortBy, lu, mg, ld, op, ad>>
  /\ ncall' = ncall

\* index of the guest line of product p, 0 when there is none (findIndex)
FindIndex(cart, p) ==
  IF \E i \in DOMAIN cart : cart[i].product_id = p
    THEN CHOOSE i \in DOMAIN cart : cart[i].product_id = p /\ \A j \in 1..(i - 1) : cart[j].product_id # p
    ELSE 0

\* the guest branch of handleAddToCart: quantity += 1 or push a new line
GuestAdd(cart, p) ==
  IF FindIndex(cart, p) > 0
    THEN [cart EXCEPT ![FindIndex(cart, p)].quantity = @ + 1]
    ELSE Append(cart, GuestLine(p, 1))

GuestQuantity(cart, p) == IF FindIndex(cart, p) > 0 THEN cart[FindIndex(cart, p)].quantity ELSE 0

FreeAdd == CHOOSE k \in 1..MaxAdds : ad[k].pc = "idle" /\ \A j \in 1..(k - 1) : ad[j].pc # "idle"

\* handleAddToCart(product): signed in, the lookup is issued; as a guest the
\* blob is rewritten at once
AddToCart(p) ==
  /\ view = "shop"
  /\ ncall' = ncall + 1
  /\ ~loading
  /\ p \in shopProducts
  /\ IF user # NoUser
       THEN /\ \E k \in 1..MaxAdds : ad[k].pc = "idle"
            /\ ad' = [ad EXCEPT ![FreeAdd] = [IdleAdd EXCEPT !.pc = "lookup", !.email = user, !.p = p]]
            /\ anonymousCart' = anonymousCart
            /\ out' = Called("addToCart", p, 0, "none", FALSE)
       ELSE /\ GuestQuantity(anonymousCart, p) < MaxQty
            /\ anonymousCart' = GuestAdd(anonymousCart, p)
            /\ ad' = ad
            /\ out' = Called("addToCart", p, 0, "info", TRUE)
  /\ UNCHANGED <<session, catalog, productInfo, filterState, db, nextId, view, gen, compState, lu, mg, ld, op, pl, nfail>>

\* CartItem.filter({user_email, product_id}) is processed by the store
AddLookupServer(k) ==
  /\ ad[k].pc = "lookup"
  /\ \E ok \in Outcomes :
       /\ nfail' = Fail(ok)
       /\ ad' = [ad EXCEPT ![k].pc = "lookupResp", ![k].ok = ok,
                           ![k].items = IF ok THEN FilterByEmailProduct(ad[k].email, ad[k].p) ELSE {}]
  /\ out' = Quiet
  /\ UNCHANGED <<session, catalog, productInfo, filterState, stores, view, gen, compState, lu, mg, ld, op, pl>>
  /\ ncall' = ncall

\* existingItem.quantity + 1
Incremented(quantity) == quantity + 1

\* handleAddToCart resumes with the lookup: update of existingItems[0] or
\* create of a line with quantity 1; a failed lookup goes to the catch branch
AddLookupDeliver(k) ==
  /\ ad[k].pc = "lookupResp"
  /\ IF ~ad[k].ok
       THEN /\ ad' = [ad EXCEPT ![k] = IdleAdd]
            /\ out' = Emit("error", TRUE)
     ELSE IF ad[k].items # {}
       THEN /\ \E existingItem \in ad[k].items :
                 ad' = [ad EXCEPT ![k].pc = "write", ![k].kind = "update", ![k].id = existingItem.id,
                                  ![k].quantity = Incremented(existingItem.quantity), ![k].items = {}]
            /\ out' = Quiet
     ELSE /\ ad' = [ad EXCEPT ![k].pc = "write", ![k].kind = "create", ![k].quantity = 1]
          /\ out' = Quiet
  /\ UNCHANGED <<session, catalog, productInfo, filterState, stores, view, gen, compState, lu, mg, ld, op, pl, nfail>>
  /\ ncall' = ncall

\* the store processes the update or create of handleAddToCart
AddWriteServer(k) ==
  /\ ad[k].pc = "write"
  /\ ad[k].quantity <= MaxQty
  /\ \E ok \in Outcomes :
       /\ nfail' = Fail(ok)
       /\ IF ok /\ ad[k].kind = "update" /\ HasId(ad[k].id)
            THEN /\ db' = DbUpdate(ad[k].id, ad[k].quantity)
                 /\ nextId' = nextId
                 /\ ad' = [ad EXCEPT ![k].pc = "writeResp", ![k].ok = TRUE]
          ELSE IF ok /\ ad[k].kind = "create"
            THEN /\ nextId <= MaxIds
                 /\ db' = DbCreate(ad[k].email, ad[k].p, ad[k].quantity)
                 /\ nextId' = nextId + 1
                 /\ ad' = [ad EXCEPT ![k].pc = "writeResp", ![k].ok = TRUE]
          ELSE /\ UNCHANGED <<db, nextId>>
               /\ ad' = [ad EXCEPT ![k].pc = "writeResp", ![k].ok = FALSE]
  /\ out' = Quiet
  /\ UNCHANGED <<session, catalog, productInfo, filterState, anonymousCart, view, gen, compState, lu, mg, ld, op, pl>>
  /\ ncall' = ncall

AddWriteDeliver_QuietOnFailure(k) ==
  /\ ad[k].pc = "writeResp"
  /\ ad' = [ad EXCEPT ![k] = IdleAdd]
  /\ out' = Emit(IF ad[k].ok THEN "info" ELSE "error", ad[k].ok)
  /\ UNCHANGED <<session, catalog, productInfo, filterState, stores, view, gen, compState, lu, mg, ld, op, pl, nfail>>
  /\ ncall' = ncall

\* handleAddToCart resumes after its write: toast, then 'cartUpdated'
AddWriteDeliver(k) ==
  /\ ad[k].pc = "writeResp"
  /\ ad' = [ad EXCEPT ![k] = IdleAdd]
  /\ out' = Emit(IF ad[k].ok THEN "info" ELSE "error", TRUE)
  /\ UNCHANGED <<session, catalog, productInfo, filterState, stores, view, gen, compState, lu, mg, ld, op, pl, nfail>>
  /\ ncall' = ncall

\* the quantities updateQuantity is called with
QtyInputs == (0 - 1)..MaxQty

\* ---- specifications -----------------------------------------------------
\* the asynchronous steps, by the function they belong to
Identity == \E g \in Gens : LoadUserResolve(g)

Merge ==
  \/ \E g \in Gens : MergeLookupServer(g)
  \/ \E g \in Gens : MergeLookupDeliver(g)
  \/ \E g \in Gens, i \in 1..Cardinality(Products) : MergeLineServer(g, i)
  \/ \E g \in Gens, i \in 1..Cardinality(Products) : MergeLineDeliver(g, i)

Reload ==
  \/ \E g \in Gens, k \in LoadKeys : LoadServer(g, k)
  \/ \E g \in Gens, k \in LoadKeys : LoadDeliver(g, k)
  \/ \E g \in Gens, k \in LoadKeys : LoadProducts(g, k)

Edit ==
  \/ \E g \in Gens, p \in Products : OpServer(g, p)
  \/ \E g \in Gens, p \in Products : OpDeliver(g, p)

Shop ==
  \/ \E g \in Gens : ShopProductsResolve(g)
  \/ \E k \in 1..MaxAdds : AddLookupServer(k)
  \/ \E k \in 1..MaxAdds : AddLookupDeliver(k)
  \/ \E k \in 1..MaxAdds : AddWriteServer(k)
  \/ \E k \in 1..MaxAdds : AddWriteDeliver(k)

\* the controls of the Cart page (or the functions called directly)
CartCalls ==
  \/ \E p \in Products, q \in QtyInputs : UpdateQuantity(p, q)
  \/ \E p \in Products : RemoveItem(p)

\* Spec: one page load.  Either page is opened once and used.
Next ==
  \/ gen = 0 /\ \E v \in Views : Navigate(v)
  \/ Identity
  \/ Merge
  \/ Reload
  \/ Edit
  \/ Shop
  \/ ncall < MaxCalls /\ CartCalls
  \/ ncall < MaxCalls /\ \E p \in Products : AddToCart(p)

Spec == Init /\ [][Next]_vars

\* SpecAdds: the Shop page is opened with both carts empty and the add
\* button is clicked up to MaxRaceCalls times.
InitAdds ==
  /\ Init
  /\ catalog = Catalog
  /\ anonymousCart = <<>>
  /\ db = {}

NextAdds ==
  \/ gen = 0 /\ Navigate("shop")
  \/ Identity
  \/ Shop
  \/ ncall < MaxRaceCalls /\ \E p \in Products : AddToCart(p)

SpecAdds == InitAdds /\ [][NextAdds]_vars

\* SpecReAdds: a signed-in user whose remote cart already holds lines opens
\* the Shop page and clicks the add button up to MaxRaceCalls times.
InitReAdds ==
  /\ Init
  /\ catalog = Catalog
  /\ session \in Emails
  /\ anonymousCart = <<>>
  /\ db # {}

SpecReAdds == InitReAdds /\ [][NextAdds]_vars

\* SpecEdits: a signed-in user with two remote lines and no guest cart opens
\* the Cart page and uses its controls up to MaxRaceCalls times.
InitEdits ==
  /\ Init
  /\ catalog = Catalog
  /\ session \in Emails
  /\ anonymousCart = <<>>
  /\ Cardinality(db) = 2

NextEdits ==
  \/ gen = 0 /\ Navigate("cart")
  \/ Identity
  \/ Reload
  \/ Edit
  \/ ncall < MaxRaceCalls /\ CartCalls

SpecEdits == InitEdits /\ [][NextEdits]_vars

\* SpecRevisit: a signed-in user who has a guest cart opens the Cart page,
\* leaves it and comes back while the promises of the first visit still run.
InitRevisit ==
  /\ Init
  /\ catalog = Catalog
  /\ session \in Emails
  /\ anonymousCart # <<>>

NextRevisit ==
  \/ gen < MaxMounts /\ Navigate("cart")
  \/ Identity
  \/ Merge
  \/ Reload
  \/ \E g \in Gens, k \in LoadKeys : LoadDiscard(g, k)

SpecRevisit == InitRevisit /\ [][NextRevisit]_vars

\* SpecFilters: a guest opens the Shop page and uses the search input and
\* the filter controls; the records of the products that exist are drawn
\* from ProductRows (product 1 with or without a description, product 2 with
\* or without a brand).  loadUser plays no part and is left pending.
Prices == {10, 1000, 1001}
ProductRows(p) ==
  {ProductRow(p, description, brand, price, stock) :
     description \in IF p = 1 THEN {Undefined, <<"c">>} ELSE {Undefined},
     brand \in IF p = 1 THEN {Undefined} ELSE {Undefined, Brand},
     price \in Prices, stock \in {0, 1}}

InitFilters ==
  /\ PageLoad
  /\ session = NoUser
  /\ anonymousCart = <<>>
  /\ db = {}
  /\ productInfo \in [Products -> UNION {ProductRows(p) \cup {DefaultRow(p)} : p \in Products}]
  /\ \A p \in Products : IF p \in catalog THEN productInfo[p] \in ProductRows(p)
                                           ELSE productInfo[p] = DefaultRow(p)

NextFilters ==
  \/ gen = 0 /\ Navigate("shop")
  \/ \E g \in Gens : ShopProductsResolve(g)
  \/ \E term \in SearchTerms : SetSearchTerm(term)
  \/ \E f \in FilterSpecs : OneControl(f) /\ SetFilters(f)
  \/ ClearFilters

SpecFilters == InitFilters /\ [][NextFilters]_vars

\* SpecSort: a guest opens the Shop page and uses the sort Select and the
\* stock and category filters; the products differ in price, stock and
\* rating, which may be missing.
Ratings == {NoRating, 0, 5}
SortPrices == {10, 20}
RatedRows(p) ==
  {[ProductRow(p, Undefined, Undefined, price, stock) EXCEPT !.rating = rating] :
     price \in SortPrices, stock \in {0, 1}, rating \in Ratings}

InitSort ==
  /\ PageLoad
  /\ session = NoUser
  /\ anonymousCart = <<>>
  /\ db = {}
  /\ productInfo \in [Products -> UNION {RatedRows(p) \cup {DefaultRow(p)} : p \in Products}]
  /\ \A p \in Products : IF p \in catalog THEN productInfo[p] \in RatedRows(p)
                                           ELSE productInfo[p] = DefaultRow(p)

NextSort ==
  \/ gen = 0 /\ Navigate("shop")
  \/ \E g \in Gens : ShopProductsResolve(g)
  \/ \E sort \in SortOptions : SetSortBy(sort)
  \/ \E f \in FilterSpecs : /\ f.brands = {}
                            /\ f.priceRange = DefaultFilters.priceRange
                            /\ OneControl(f)
                            /\ SetFilters(f)

SpecSort == InitSort /\ [][NextSort]_vars

\* SpecEditsFair: SpecEdits in which every request that was issued settles
\* and every promise that can resume does; the user's clicks are under no
\* such obligation.
SpecEditsFair ==
  /\ SpecEdits
  /\ WF_vars(Identity)
  /\ WF_vars(Reload)
  /\ WF_vars(Edit)

\* ---- properties ---------------------------------------------------------
\* a merge is running: invoked and not yet through its finally block
Merging(g) == mg[g].pc \in {"lookup", "lookupResp", "join"}
\* the step in which mergeCarts of mount g ends
MergeEnds(g) == Merging(g) /\ mg'[g].pc = "done"
\* the lookup and every per-line request of a finished merge succeeded
AllLinesSucceeded(m) ==
  /\ m.lines # <<>>
  /\ \A i \in DOMAIN m.lines : m.lines[i].st = "fulfilled"
\* nothing is in flight
Quiescent ==
  /\ \A g \in Gens : lu[g] \notin Views /\ ~Merging(g)
  /\ \A g \in Gens : \A i \in DOMAIN mg[g].lines : mg[g].lines[i].st \in {"fulfilled", "rejected"}
  /\ \A g \in Gens, k \in LoadKeys : ld[g][k].pc = "idle"
  /\ \A g \in Gens, p \in Products : op[g][p].pc = "idle"
  /\ \A k \in 1..MaxAdds : ad[k].pc = "idle"
  /\ \A g \in Gens : pl[g] = "idle"

RemoteLines(e, p) == {d \in db : d.user_email = e /\ d.product_id = p}
GuestLines(p) == {i \in DOMAIN anonymousCart : anonymousCart[i].product_id = p}

RECURSIVE SumQuantity(_)
SumQuantity(S) == IF S = {} THEN 0
                  ELSE LET d == CHOOSE x \in S : TRUE IN d.quantity + SumQuantity(S \ {d})
RECURSIVE SumGuest(_)
SumGuest(cart) == IF cart = <<>> THEN 0 ELSE Head(cart).quantity + SumGuest(Tail(cart))

\* C1: when a merge ends after every per-line request succeeded, each guest
\* line (p, g) has been added to the remote line the lookup found for p
\* (quantity r + g), or exists as a new remote line (email, p, g), and the
\* guest cart is empty.
C1_MergePostcondition ==
  [][\A g \in Gens :
       (MergeEnds(g) /\ AllLinesSucceeded(mg'[g])) =>
          /\ \A i \in DOMAIN mg[g].lines :
               LET l == mg[g].lines[i]
                   guest == mg[g].localCart[i]
               IN IF l.kind = "update"
                    THEN \E d \in db' : d.id = l.id /\ d.quantity = l.r + guest.quantity
                    ELSE \E d \in db' : /\ d.user_email = mg[g].email
                                        /\ d.product_id = guest.product_id
                                        /\ d.quantity = guest.quantity
          /\ anonymousCart' = <<>>]_vars

C3_OneMergeAtATime == Cardinality({g \in Gens : Merging(g)}) <= 1

\* C4: the guest cart and the remote cart of each email hold at most one
\* line per product.
C4_OneLinePerProduct ==
  \A p \in Products :
     /\ Cardinality(GuestLines(p)) <= 1
     /\ \A e \in Emails : Cardinality(RemoteLines(e, p)) <= 1

\* C5: every stored line, guest or remote, has quantity at least 1.
C5_QuantityAtLeastOne ==
  /\ \A d \in db : d.quantity >= 1
  /\ \A i \in DOMAIN anonymousCart : anonymousCart[i].quantity >= 1

\* updateQuantity(p, 0) was called on a line that has quantity 1
C5_UnderflowAttempted ==
  /\ out.call.name = "updateQuantity"
  /\ out.call.q = 0
  /\ \/ \E d \in db : d.product_id = out.call.p /\ d.quantity = 1 /\ user = d.user_email
     \/ user = NoUser /\ \E i \in GuestLines(out.call.p) : anonymousCart[i].quantity = 1

\* C6: when handleAddToCart has been called n times with both carts empty at
\* the start, all as a guest or all signed in, and every call has ended
\* without a failure, the cart holds one line per product added and their
\* quantities sum to n.
C6_SuccessiveAdds ==
  (Quiescent /\ view = "shop" /\ ncall > 0 /\ nfail = 0 /\ (db = {} \/ anonymousCart = <<>>)) =>
     /\ C4_OneLinePerProduct
     /\ SumQuantity(db) + SumGuest(anonymousCart) = ncall

\* C7: updateQuantity called with a quantity below 1 changes nothing: no
\* request is issued, no store and no in-memory state changes, no busy flag
\* is set.
C7_RejectedIsNoOp ==
  [][(out'.call.name = "updateQuantity" /\ out'.call.q < 1) =>
        /\ UNCHANGED <<session, catalog, productInfo, filterState, stores, view, gen, compState, lu, mg, ld, op, ad, pl>>
        /\ out'.toast = "none" /\ ~out'.event]_vars

\* updateQuantity(p, q) with q < 1 was called for a line the cart shows
C7_RejectedCall ==
  /\ out.call.name = "updateQuantity"
  /\ out.call.q < 1
  /\ Find(out.call.p) # {}
  /\ user # NoUser

\* the cart of the current identity, as removeItem consults it, has no line
\* of product p
NoLine(p) == IF user # NoUser THEN Find(p) = {} ELSE GuestLines(p) = {}

\* C8: removeItem for a product that has no line in the cart changes no
\* store, issues no request and shows no error.
C8_RemoveMissingIsNoOp ==
  [][\A p \in Products :
       (out'.call.name = "removeItem" /\ out'.call.p = p /\ NoLine(p)) =>
          /\ UNCHANGED <<db, nextId, anonymousCart>>
          /\ UNCHANGED <<op, ld, mg, ad>>
          /\ out'.toast # "error"]_vars

\* removeItem was called by a signed-in user for a product that is not among
\* the lines of a cart that is not empty
C8_RemoveMissingCalled ==
  /\ out.call.name = "removeItem"
  /\ user # NoUser
  /\ cartItems # {}
  /\ Find(out.call.p) = {}

\* the source of truth of the identity the Cart page has resolved
SourceOfTruth == IF user # NoUser THEN FilterByEmail(user) ELSE GuestItems(anonymousCart)

\* C9: when the operations that were started have all ended, no read having
\* failed, the in-memory lines are the lines of the source of truth.
C9_ViewMatchesStore ==
  (Quiescent /\ view = "cart" /\ ncall > 0 /\ nfail = 0) => cartItems = SourceOfTruth

\* C10: a merge that has ended has no per-line request still in flight.
C10_JoinBeforeEnd ==
  \A g \in Gens :
     mg[g].pc = "done" => \A i \in DOMAIN mg[g].lines : mg[g].lines[i].st \in {"fulfilled", "rejected"}

\* C11: once a merge has ended with a failed request, no later view
\* activation invokes mergeCarts again with the guest lines of that merge.
C11_NoRetry ==
  [][\A g, h \in Gens :
       (mg[g].pc = "done" /\ ~mg[g].ok /\ mg[h].pc = "idle" /\ mg'[h].pc = "lookup")
          => mg'[h].localCart # mg[g].localCart]_vars

\* C12: the step in which a merge ends dispatches 'cartUpdated', whether
\* every request succeeded, a per-line request failed or the lookup failed.
C12_MergeEndsWithEvent ==
  [][\A g \in Gens : MergeEnds(g) => out'.event]_vars

\* a merge has just ended in its catch branch, the event dispatched
C12_FailedMergeNotified ==
  /\ out.event
  /\ out.toast = "error"
  /\ out.call = NoCall
  /\ \E g \in Gens : mg[g].pc = "done" /\ ~mg[g].ok

\* the step in which updateQuantity / removeItem of product p ends on the
\* mounted page, its request having failed and its reload having read the cart
FailedOpEnds(g, p) ==
  /\ Live(g)
  /\ op[g][p].pc = "reload"
  /\ ~op[g][p].ok
  /\ op'[g][p].pc = "idle"
  /\ ld[g][p].pc \in {"resp", "prod"}
  /\ ld[g][p].ok

\* C13: when the update or delete of an operation failed, the operation ends
\* (nothing else being in flight) with the in-memory lines equal to the lines
\* of the remote cart, and the failed request has shown an error toast.
C13_FailedWriteNotApplied ==
  [][/\ \A g \in Gens, p \in Products :
          (FailedOpEnds(g, p) /\ Quiescent') => cartItems' = FilterByEmail(user)
     /\ \A g \in Gens, p \in Products :
          (op[g][p].pc = "resp" /\ ~op[g][p].ok /\ op'[g][p].pc = "reload") => out'.toast = "error"]_vars

\* the step in which loadCartItems of the mounted page ends in its catch
\* branch: CartItem.filter or Product.filter has failed
FailedLoadEnds(g, k) ==
  /\ Live(g)
  /\ ld[g][k].pc \in {"resp", "prod"}
  /\ ld'[g][k].pc = "idle"
  /\ out'.toast = "error"

\* C14: when a read of loadCartItems fails, the in-memory lines and the
\* product map still belong together: lines that were newly fetched are not
\* left with a product map that was built before them (every line whose
\* product exists has its product in the map), and a failed line fetch
\* leaves both as they were.
C14_FailedReadKeepsPair ==
  [][\A g \in Gens, k \in LoadKeys :
       FailedLoadEnds(g, k) =>
          /\ (ProductIds(cartItems') \cap catalog) \subseteq products'
          /\ ld[g][k].pc = "resp" => UNCHANGED <<cartItems, products>>]_vars

\* the step in which loadUser of the mounted page ends without a user:
\* nobody is signed in, or User.me failed
ResolvesAnonymous(g) ==
  /\ Live(g)
  /\ lu[g] \in Views
  /\ lu'[g] = "done"
  /\ (session = NoUser \/ nfail' # nfail)

\* C15: when User.me fails or nobody is signed in, the page has no user, no
\* toast is shown, no merge and no remote read is started; and every
\* updateQuantity, removeItem and handleAddToCart of a page without a user
\* leaves the remote store alone and issues no request.
C15_AnonymousOnFailure ==
  [][/\ \A g \in Gens :
          ResolvesAnonymous(g) => /\ user' = NoUser
                                  /\ out'.toast = "none"
                                  /\ UNCHANGED <<mg, ld, isMerging, stores>>
     /\ (view = "cart" /\ user = NoUser /\ out'.call.name \in {"updateQuantity", "removeItem"})
          => UNCHANGED <<db, nextId, op, ld>>
     /\ (view = "shop" /\ user = NoUser /\ out'.call.name = "addToCart")
          => UNCHANGED <<db, nextId, ad>>]_vars

\* User.me failed for a signed-in session and the page, without a user, has
\* changed the quantity of a guest line
C15_GuestAfterFailure ==
  /\ view = "cart"
  /\ session \in Emails
  /\ user = NoUser
  /\ lu[gen] = "done"
  /\ nfail > 0
  /\ out.call.name = "updateQuantity"
  /\ out.event
  /\ db # {}

\* ---- Cart.js: rendering and totals --------------------------------------
\* cartItems.map(item => { const product = products[item.product_id];
\* if (!product) return null; ... }): the lines the page renders
Rendered(items, prods) == {item \in items : item.product_id \in prods}

LineAmount_Unresolved(item, prods) == Price(item.product_id) * item.quantity

\* total + (product ? product.price * item.quantity : 0)
LineAmount(item, prods) ==
  IF item.product_id \in prods THEN Price(item.product_id) * item.quantity ELSE 0

\* cartItems.reduce(..., 0)
RECURSIVE Reduce(_, _)
Reduce(items, prods) ==
  IF items = {} THEN 0
  ELSE LET item == CHOOSE x \in items : TRUE
       IN LineAmount(item, prods) + Reduce(items \ {item}, prods)

getSubtotal == Reduce(cartItems, products)

\* the tax rate of getTax, in percent: getSubtotal() * 0.08
TaxPercent == 8
\* getTax and getTotal, in hundredths of the unit prices are given in
getTax == getSubtotal * TaxPercent
getTotal == getSubtotal * 100 + getTax

\* the step in which loadCartItems of the mounted, signed-in page ends after
\* both of its reads succeeded
LoadSucceeds(g, k) ==
  /\ Live(g)
  /\ user # NoUser
  /\ ld[g][k].pc \in {"resp", "prod"}
  /\ ld'[g][k].pc = "idle"
  /\ out'.toast # "error"

\* C16: when loadCartItems of a signed-in page has ended successfully, a line
\* whose product does not exist is not rendered and the subtotal is what it
\* would be without that line; and no step of loadCartItems changes the
\* remote store.
C16_MissingProductDropped ==
  [][/\ \A g \in Gens, k \in LoadKeys :
          LoadSucceeds(g, k) =>
             \A item \in cartItems' :
                item.product_id \notin catalog =>
                   /\ item \notin Rendered(cartItems', products')
                   /\ Reduce(cartItems', products') = Reduce(cartItems' \ {item}, products')
     /\ ld' # ld => db' = db]_vars

\* a signed-in cart is shown that holds a stored line of a product that no
\* longer exists next to a line that is rendered
C16_MissingProductInCart ==
  /\ view = "cart"
  /\ user # NoUser
  /\ ~loading
  /\ Quiescent
  /\ \E item \in cartItems : item.product_id \notin catalog /\ item \in db
  /\ Rendered(cartItems, products) # {}
  /\ getSubtotal > 0

\* sum of price times quantity over a set of lines
RECURSIVE SumAmounts(_)
SumAmounts(S) ==
  IF S = {} THEN 0
  ELSE LET item == CHOOSE x \in S : TRUE
       IN Price(item.product_id) * item.quantity + SumAmounts(S \ {item})

\* C17: whenever the Cart page shows a cart, the subtotal is the sum of price
\* times quantity over exactly the lines whose product is in the product
\* map, the tax is 8% of the subtotal, and the total is subtotal plus tax.
C17_Totals ==
  (view = "cart" /\ ~loading /\ ~isMerging) =>
     /\ getSubtotal = SumAmounts({item \in cartItems : item.product_id \in products})
     /\ 100 * getTax = 8 * (100 * getSubtotal)
     /\ getTotal - getTax = 100 * getSubtotal

\* a signed-in cart of two lines is shown, one of them of a product that no
\* longer exists: subtotal 10, tax 0.80, total 10.80
C17_TotalsOfMixedCart ==
  /\ view = "cart"
  /\ user # NoUser
  /\ ~loading
  /\ ~isMerging
  /\ Cardinality(cartItems) = 2
  /\ \E item \in cartItems : item.product_id \notin products
  /\ getSubtotal = 10
  /\ getTax = 80
  /\ getTotal = 1080

\* C18: an updateQuantity, removeItem or handleAddToCart that has issued a
\* request to the remote store ends only in a step that dispatches
\* 'cartUpdated', whatever became of the request; as a guest, the call that
\* rewrites the guest cart dispatches it at once.
C18_MutationNotifies ==
  [][/\ \A g \in Gens, p \in Products :
          (op[g][p].pc # "idle" /\ op'[g][p].pc = "idle") => out'.event
     /\ \A k \in 1..MaxAdds :
          (ad[k].pc # "idle" /\ ad'[k].pc = "idle") => out'.event
     /\ (/\ user = NoUser
         /\ \/ out'.call.name \in {"removeItem", "addToCart"}
            \/ out'.call.name = "updateQuantity" /\ out'.call.q >= 1)
          => out'.event]_vars

\* handleAddToCart of a signed-in user has just ended with its error toast
\* and the event, the remote cart still empty
C18_FailedAddNotified ==
  /\ view = "shop"
  /\ user # NoUser
  /\ out.toast = "error"
  /\ out.event
  /\ db = {}
  /\ ncall > 0

\* the elements of a list
Elements(list) == {list[i] : i \in DOMAIN list}

\* a product satisfies every filter of the specification
Satisfies(product, term, f) ==
  /\ term = <<>> \/ MatchesSearch(product, term)
  /\ f.categories = {} \/ product.category \in f.categories
  /\ f.brands = {} \/ product.brand \in f.brands
  /\ f.priceRange[1] <= product.price /\ product.price <= f.priceRange[2]
  /\ f.inStock => product.stock > 0

\* C19: once the products are loaded, the products shown are exactly the
\* loaded products that satisfy the search term, the category, brand and
\* price filters and the stock filter together, each of them once; no
\* product is shown when none is loaded.
C19_FilterConjunction ==
  FiltersShown =>
     /\ Elements(filteredProducts) = {p \in shopProducts : Satisfies(productInfo[p], searchTerm, filters)}
     /\ Len(filteredProducts) = Cardinality(Elements(filteredProducts))
     /\ shopProducts = {} => filteredProducts = <<>>

\* two products are loaded, a search term and every filter are set, and one
\* of the two products, priced at the upper end of the range, is shown
C19_OneOfTwoShown ==
  /\ FiltersShown
  /\ Cardinality(shopProducts) = 2
  /\ searchTerm # <<>>
  /\ filters.categories # {}
  /\ filters.brands # {}
  /\ filters.inStock
  /\ Len(filteredProducts) = 1
  /\ productInfo[filteredProducts[1]].price = filters.priceRange[2]

\* the k-th filter of applyFilters
FilterStep(k, list, term, f) ==
  CASE k = 1 -> SearchFilter(list, term)
    [] k = 2 -> CategoryFilter(list, f)
    [] k = 3 -> BrandFilter(list, f)
    [] k = 4 -> PriceFilter(list, f)
    [] OTHER -> StockFilter(list, f)

\* the filters applied in a given order
RECURSIVE ApplyInOrder(_, _, _, _)
ApplyInOrder(order, list, term, f) ==
  IF order = <<>> THEN list
  ELSE ApplyInOrder(Tail(order), FilterStep(Head(order), list, term, f), term, f)

\* the orders in which the five filters can be applied
RECURSIVE Orders(_)
Orders(S) == IF S = {} THEN {<<>>} ELSE UNION {{<<k>> \o o : o \in Orders(S \ {k})} : k \in S}
FilterOrders == Orders(1..5)

\* C20: whatever the order in which the five filters are applied to the
\* loaded products, the set of products kept is the set applyFilters shows.
C20_FiltersCommute ==
  FiltersShown =>
     \A o \in FilterOrders :
        Elements(ApplyInOrder(o, ListOf(shopProducts), searchTerm, filters)) = Elements(filteredProducts)

\* two products are loaded; the category filter alone keeps one of them, the
\* price filter alone keeps the other, and nothing is shown
C20_DisjointFilters ==
  /\ FiltersShown
  /\ Cardinality(shopProducts) = 2
  /\ Len(CategoryFilter(ListOf(shopProducts), filters)) = 1
  /\ Len(PriceFilter(ListOf(shopProducts), filters)) = 1
  /\ CategoryFilter(ListOf(shopProducts), filters) # PriceFilter(ListOf(shopProducts), filters)
  /\ filteredProducts = <<>>

\* the loaded products after the five filters, in the order Product.list
\* returned them: the input of the sort
Filtered == ApplyInOrder(<<1, 2, 3, 4, 5>>, ListOf(shopProducts), searchTerm, filters)
\* index of a product in a list
Position(list, p) == CHOOSE i \in DOMAIN list : list[i] = p
\* the order of the sort key: negative when a goes before b, 0 when the two
\* compare equal
KeyOrder(a, b, sort) ==
  CASE sort = "price-low" -> a.price - b.price
    [] sort = "price-high" -> b.price - a.price
    [] sort = "rating" -> (IF b.rating = NoRating THEN 0 ELSE b.rating)
                          - (IF a.rating = NoRating THEN 0 ELSE a.rating)
    [] sort = "newest" -> b.created_date - a.created_date
    [] OTHER -> LocaleCompare(a.name, b.name)

\* C21: the products shown are a permutation of the filtered products, in
\* the order of the sort key, and two products that compare equal under the
\* key (a missing rating counting as 0) are shown in their input order.
C21_StableSortLast ==
  view = "shop" =>
     /\ Len(filteredProducts) = Len(Filtered)
     /\ Elements(filteredProducts) = Elements(Filtered)
     /\ \A i, j \in DOMAIN filteredProducts :
          i < j =>
            LET order == KeyOrder(productInfo[filteredProducts[i]], productInfo[filteredProducts[j]], sortBy)
            IN /\ order <= 0
               /\ order = 0 => Position(Filtered, filteredProducts[i]) < Position(Filtered, filteredProducts[j])

\* sorted by rating, a product without a rating and a product rated 0 are
\* shown in their input order although the second is the cheaper one
C21_MissingRatingTies ==
  /\ FiltersShown
  /\ sortBy = "rating"
  /\ filters.inStock
  /\ Len(filteredProducts) = 2
  /\ productInfo[filteredProducts[1]].rating = NoRating
  /\ productInfo[filteredProducts[2]].rating = 0
  /\ productInfo[filteredProducts[1]].price > productInfo[filteredProducts[2]].price
  /\ filteredProducts = Filtered

\* the step in which loadUser of a Cart page invokes mergeCarts
MergeInvoked(g) == mg[g].pc = "idle" /\ mg'[g].pc = "lookup"
\* the step in which loadUser of a Cart page resumes with a signed-in user
\* and finds a guest cart that is not empty
AuthenticatedWithGuestCart(g) ==
  /\ lu[g] = "cart"
  /\ lu'[g] = "done"
  /\ session \in Emails
  /\ nfail' = nfail
  /\ anonymousCart # <<>>

\* C22: an activation of the Cart page invokes mergeCarts exactly in the step
\* in which its identity resolves to a signed-in user and the guest cart is
\* not empty, with that user and that guest cart; an activation that did not
\* invoke it never runs a merge, and the remote store is written only by a
\* merge so invoked or by updateQuantity, removeItem or handleAddToCart.
C22_MergeIffAuthenticatedGuestCart ==
  [][/\ \A g \in Gens :
          /\ MergeInvoked(g) <=> AuthenticatedWithGuestCart(g)
          /\ MergeInvoked(g) => mg'[g].email = session /\ mg'[g].localCart = anonymousCart
          /\ (lu[g] = "done" /\ mg[g].pc = "idle") => mg'[g] = IdleMerge
     /\ db' # db =>
          \/ \E g \in Gens : /\ mg'[g] # mg[g]
                             /\ mg[g].pc \in {"join", "done"}
                             /\ mg[g].email \in Emails
                             /\ mg[g].localCart # <<>>
          \/ op' # op
          \/ ad' # ad]_vars

\* the Cart page of a signed-in user has invoked mergeCarts with the one
\* guest line that was left after the guest removed the other
C22_MergeOfRemainingLine ==
  /\ view = "cart"
  /\ user \in Emails
  /\ lu[gen] = "done"
  /\ mg[gen].pc = "lookup"
  /\ isMerging
  /\ Len(mg[gen].localCart) = 1
  /\ ncall = 1
  /\ out.call = NoCall

\* the Cart page of a signed-in user whose merge has ended with every request
\* succeeded, the reloads it triggered have ended, and nothing else has
\* touched the cart
MergedAndReloaded ==
  /\ view = "cart"
  /\ user \in Emails
  /\ mg[gen].pc = "done"
  /\ mg[gen].ok
  /\ Quiescent
  /\ ncall = 0
  /\ nfail = 0

\* C23: once the merge of a login and the reloads it triggered have ended,
\* the in-memory lines are the lines of the remote cart after the merge.
C23_MergedCartDisplayed ==
  MergedAndReloaded => cartItems = FilterByEmail(user)

\* an operation on the line of product p is in flight on the mounted page
InFlight(p) == op[gen][p].pc # "idle"

\* C24: the busy flag of a line is set in the step that starts an operation
\* on it, is set only while such an operation is in flight, and is cleared
\* only when the operation ends (or by a call for a product the cart does
\* not show); a call made for a line whose flag is set starts no operation
\* and writes nothing; and a flag that is set is eventually cleared, whether
\* the write succeeds or fails.
C24_BusyFlag ==
  /\ [](view = "cart" => \A p \in Products : updating[p] => InFlight(p))
  /\ [][\A p \in Products :
          (gen \in Gens /\ gen' = gen) =>
          /\ (~InFlight(p) /\ InFlight(p)') => updating'[p]
          /\ (updating[p] /\ ~updating'[p])
               => (~InFlight(p)' \/ (out'.call.p = p /\ Find(p) = {}))
          /\ (out'.call.name \in {"updateQuantity", "removeItem"} /\ out'.call.p = p /\ updating[p])
               => UNCHANGED <<stores, op, ld>>]_vars
  /\ \A p \in Products : updating[p] ~> ~updating[p]

\* the update of a line has failed at the store, the operation is reloading
\* the cart and the flag of the line is still set
C24_BusyAfterFailedWrite ==
  /\ view = "cart"
  /\ \E p \in Products : /\ updating[p]
                          /\ op[gen][p].pc = "reload"
                          /\ op[gen][p].kind = "update"
                          /\ ~op[gen][p].ok
                          /\ ld[gen][p].pc = "resp"

\* the step in which the store applies the update or create of invocation k
\* of handleAddToCart
AddStored(k) == ad[k].pc = "write" /\ ad'[k].pc = "writeResp" /\ ad'[k].ok

\* C25: every update or create of handleAddToCart that the store applies
\* raises the total remote quantity of its user and product by exactly one,
\* so that k successful invocations raise it by k, overlapping or not.
C25_NoLostIncrement ==
  [][\A k \in 1..MaxAdds :
       AddStored(k) =>
          SumQuantity(FilterByEmailProduct(ad[k].email, ad[k].p)')
             = SumQuantity(FilterByEmailProduct(ad[k].email, ad[k].p)) + 1]_vars

\* the guest lines of the products other than p, in their order
OtherLines(cart, p) == SelectSeq(cart, LAMBDA line : line.product_id # p)
\* the step is a call of the function named name by a guest
GuestCall(name) == view = "cart" /\ user = NoUser /\ out'.call.name = name

\* C26: as a guest, updateQuantity(p, q) with q >= 1 leaves every guest line
\* where it is and changes nothing but the quantity of the line of p, which
\* becomes q; removeItem(p) leaves the guest lines of the other products as
\* they are and in their order, and no line of p; neither writes to the
\* remote store or issues a request.
C26_GuestFrame ==
  [][/\ (GuestCall("updateQuantity") /\ out'.call.q >= 1) =>
          /\ DOMAIN anonymousCart' = DOMAIN anonymousCart
          /\ \A i \in DOMAIN anonymousCart :
               IF anonymousCart[i].product_id = out'.call.p
                 THEN anonymousCart'[i] = [anonymousCart[i] EXCEPT !.quantity = out'.call.q]
                 ELSE anonymousCart'[i] = anonymousCart[i]
          /\ UNCHANGED <<db, nextId, op, ld>>
     /\ GuestCall("removeItem") =>
          /\ OtherLines(anonymousCart', out'.call.p) = OtherLines(anonymousCart, out'.call.p)
          /\ anonymousCart' = OtherLines(anonymousCart', out'.call.p)
          /\ UNCHANGED <<db, nextId, op, ld>>]_vars

\* a guest with two lines has raised the quantity of the first to 2; the
\* second is still at quantity 1 and a remote cart exists untouched
C26_OneOfTwoLinesChanged ==
  /\ view = "cart"
  /\ user = NoUser
  /\ out.call.name = "updateQuantity"
  /\ out.call.p = 1
  /\ out.call.q = 2
  /\ anonymousCart = <<GuestLine(1, 2), GuestLine(2, 1)>>
  /\ db # {}

====
